---- MODULE Spec2Model ----
(***************************************************************************)
(* Model of the 8-bit computer simulator core (frontend/src/api/cpu.js):   *)
(* the CPU object's fields, the browser's table of active intervals, and   *)
(* one action per public operation plus the interval callback of run().    *)
(***************************************************************************)
EXTENDS Integers, Sequences, FiniteSets, TLC

(***************************************************************************)
(* JavaScript values that are not numbers.  Every field that holds a       *)
(* number in the program holds a non-negative integer, so the three        *)
(* non-numbers are encoded as negative integers and never take part in     *)
(* arithmetic: the operators below test for them first.                    *)
(***************************************************************************)
undefined == 0 - 1
NaN == 0 - 2
null == 0 - 3

IsNumber(v) == v >= 0

\* rom.length / ram.length of the two Uint8Array(256)
MemSize == 256

\* bounds of the model
MaxCycles == 6

\* clock speeds the caller passes to setClockSpeed (a subset of the UI's list
\* that divides 1000, so that 1000 / speed is an integer)
ClockSpeeds == {1, 2, 5}

Addresses == 0 .. (MemSize - 1)

\* storing a JavaScript value into a Uint8Array element: ToNumber, then modulo 2^8
ToUint8(v) == IF IsNumber(v) THEN v % 256 ELSE 0

\* x++ on a JavaScript value: undefined and NaN become NaN
Increment(v) == IF IsNumber(v) THEN v + 1 ELSE NaN

\* a >= b as JavaScript evaluates it: false when a is undefined or NaN
GreaterOrEqual(a, b) == IsNumber(a) /\ a >= b

\* (a + b) & 0xFF and (a - b) & 0xFF: NaN & 0xFF is 0
AddMasked(a, b) == IF IsNumber(a) /\ IsNumber(b) THEN (a + b) % 256 ELSE 0
\* a difference that is not wrapped
SubMasked_magnitude(a, b) ==
  IF IsNumber(a) /\ IsNumber(b) THEN (IF a >= b THEN a - b ELSE b - a) ELSE 0

SubMasked(a, b) == IF IsNumber(a) /\ IsNumber(b) THEN (a - b) % 256 ELSE 0
\* a carry that is off by one
AddCarry_offByOne(a, b) == IsNumber(a) /\ IsNumber(b) /\ (a + b) >= 255

AddCarry(a, b) == IsNumber(a) /\ IsNumber(b) /\ (a + b) > 255
SubCarry(a, b) == IsNumber(a) /\ IsNumber(b) /\ (a - b) < 0

\* this.rom[i]: a typed array yields undefined outside 0..255 (and for the
\* keys undefined and NaN, which are never set on rom)
RomRead(rom_, i) == IF i \in Addresses THEN rom_[i] ELSE undefined

\* this.ram[i]: the key undefined names the ordinary property "undefined" of
\* the typed-array object, which STA can create
RamRead(w, i) == IF i \in Addresses THEN w.ram[i] ELSE w.ramExpando

\* this.pcToLineMap[pc] || 0
LineOf(map, pc) == IF pc \in DOMAIN map THEN map[pc] ELSE 0

\* 1000 / this.clockSpeed
Period(speed) == 1000 \div speed

(***************************************************************************)
(* The instruction set: [opcode, operand_count] of each mnemonic.          *)
(***************************************************************************)
Mnemonics == {"NOP", "LDA", "ADD", "SUB", "STA", "LDI", "JMP", "JC", "JZ", "OUT", "HLT"}

instructionSet ==
  [n \in Mnemonics |->
     CASE n = "NOP" -> [opcode |-> 0, operands |-> 0]
       [] n = "LDA" -> [opcode |-> 1, operands |-> 1]
       [] n = "ADD" -> [opcode |-> 2, operands |-> 1]
       [] n = "SUB" -> [opcode |-> 3, operands |-> 1]
       [] n = "STA" -> [opcode |-> 4, operands |-> 1]
       [] n = "LDI" -> [opcode |-> 5, operands |-> 1]
       [] n = "JMP" -> [opcode |-> 6, operands |-> 1]
       [] n = "JC"  -> [opcode |-> 7, operands |-> 1]
       [] n = "JZ"  -> [opcode |-> 8, operands |-> 1]
       [] n = "OUT" -> [opcode |-> 9, operands |-> 0]
       [] n = "HLT" -> [opcode |-> 15, operands |-> 0]]

\* a decode that looks at the low four bits only
Decode_lowNibble(ir) ==
  IF IsNumber(ir) /\ \E n \in Mnemonics : instructionSet[n].opcode = ir % 16
    THEN CHOOSE n \in Mnemonics : instructionSet[n].opcode = ir % 16
    ELSE "none"

\* the decode loop of step(): the mnemonic whose opcode equals the fetched byte
Decode(ir) ==
  IF \E n \in Mnemonics : instructionSet[n].opcode = ir
    THEN CHOOSE n \in Mnemonics : instructionSet[n].opcode = ir
    ELSE "none"

\* the activeComponents object literal, in the order of the source
Components(a, ra, ro, rga, rgb, ir, pc, out) ==
  [alu |-> a, ram |-> ra, rom |-> ro, register_a |-> rga, register_b |-> rgb,
   instruction_register |-> ir, program_counter |-> pc, output_register |-> out]

VARIABLES
  registerA, registerB, programCounter, instructionRegister, flags,
  outputRegister, alu, pcToLineMap, currentSourceLine, rom, ram, ramExpando,
  currentRamAddress, activeComponents, clockSpeed, running, timer,
  intervals,      \* the browser's active intervals: id -> period in ms
  lastOp,         \* the operation that produced the current state
  lastResult,     \* what the last step() returned
  wasRunning,     \* the value of running before the last operation
  stepRomIndex,   \* the indices the last step() used on rom
  stepRamIndex,   \* the indices the last step() used on ram
  halted,         \* "halted" once a tick executed HLT, "stepped" once the
                  \* caller stepped from there, "no" otherwise
  assemblyCode,   \* the source text the caller assembles
  machineCode,    \* the program array the caller holds (assembleCode's result)
  snapshot,       \* the getState() result the caller holds, if it took one
  cycles          \* step() executions since the last reset (bounds the model)

\* the architectural state: registers, flags, memories, program counter
archvars == <<registerA, registerB, programCounter, instructionRegister, flags,
              outputRegister, rom, ram, ramExpando>>

\* every field of the CPU object and the interval table
progvars == <<registerA, registerB, programCounter, instructionRegister, flags,
              outputRegister, alu, pcToLineMap, currentSourceLine, rom, ram,
              ramExpando, currentRamAddress, activeComponents, clockSpeed,
              running, timer, intervals>>

vars == <<registerA, registerB, programCounter, instructionRegister, flags,
          outputRegister, alu, pcToLineMap, currentSourceLine, rom, ram,
          ramExpando, currentRamAddress, activeComponents, clockSpeed,
          running, timer, intervals, lastOp, lastResult, wasRunning,
          stepRomIndex, stepRamIndex, halted, assemblyCode, machineCode,
          snapshot, cycles>>

\* the CPU object (and the interval table its methods act on) as one value
This ==
  [registerA |-> registerA, registerB |-> registerB,
   programCounter |-> programCounter,
   instructionRegister |-> instructionRegister, flags |-> flags,
   outputRegister |-> outputRegister, alu |-> alu,
   pcToLineMap |-> pcToLineMap, currentSourceLine |-> currentSourceLine,
   rom |-> rom, ram |-> ram, ramExpando |-> ramExpando,
   currentRamAddress |-> currentRamAddress,
   activeComponents |-> activeComponents, clockSpeed |-> clockSpeed,
   running |-> running, timer |-> timer, intervals |-> intervals]

Becomes(w) ==
  /\ registerA' = w.registerA
  /\ registerB' = w.registerB
  /\ programCounter' = w.programCounter
  /\ instructionRegister' = w.instructionRegister
  /\ flags' = w.flags
  /\ outputRegister' = w.outputRegister
  /\ alu' = w.alu
  /\ pcToLineMap' = w.pcToLineMap
  /\ currentSourceLine' = w.currentSourceLine
  /\ rom' = w.rom
  /\ ram' = w.ram
  /\ ramExpando' = w.ramExpando
  /\ currentRamAddress' = w.currentRamAddress
  /\ activeComponents' = w.activeComponents
  /\ clockSpeed' = w.clockSpeed
  /\ running' = w.running
  /\ timer' = w.timer
  /\ intervals' = w.intervals

(***************************************************************************)
(* The execution functions of the instruction set.  Each takes the CPU     *)
(* and the operand step() fetched and returns the CPU afterwards.          *)
(***************************************************************************)
\* updateFlags(value): this.flags.zero = (value === 0)
updateFlags(w, value) == [w EXCEPT !.flags.zero = (value = 0)]

NOP(w) ==
  [w EXCEPT !.activeComponents =
     Components(FALSE, FALSE, TRUE, FALSE, FALSE, TRUE, TRUE, FALSE)]

\* LDA that clears the carry flag
LDA_clearsCarry(w, addr) ==
  LET w1 == [w EXCEPT
               !.activeComponents =
                  Components(FALSE, TRUE, TRUE, TRUE, FALSE, TRUE, TRUE, FALSE),
               !.currentRamAddress = addr,
               !.registerA = RamRead(w, addr),
               !.flags.carry = FALSE]
  IN updateFlags(w1, w1.registerA)

\* LDA that takes its operand as the value
LDA_immediate(w, addr) ==
  LET w1 == [w EXCEPT
               !.activeComponents =
                  Components(FALSE, TRUE, TRUE, TRUE, FALSE, TRUE, TRUE, FALSE),
               !.currentRamAddress = addr,
               !.registerA = addr]
  IN updateFlags(w1, w1.registerA)

\* LDA that leaves the zero flag alone
LDA_skipsFlags(w, addr) ==
  [w EXCEPT
     !.activeComponents =
        Components(FALSE, TRUE, TRUE, TRUE, FALSE, TRUE, TRUE, FALSE),
     !.currentRamAddress = addr,
     !.registerA = RamRead(w, addr)]

LDA(w, addr) ==
  LET w1 == [w EXCEPT
               !.activeComponents =
                  Components(FALSE, TRUE, TRUE, TRUE, FALSE, TRUE, TRUE, FALSE),
               !.currentRamAddress = addr,
               !.registerA = RamRead(w, addr)]
  IN updateFlags(w1, w1.registerA)

ADD(w, addr) ==
  LET a == w.registerA
      b == RamRead(w, addr)
      w1 == [w EXCEPT
               !.activeComponents =
                  Components(TRUE, TRUE, TRUE, TRUE, FALSE, TRUE, TRUE, FALSE),
               !.currentRamAddress = addr,
               !.alu.operation = "ADD",
               !.alu.inputA = a,
               !.alu.inputB = b,
               !.alu.result = AddMasked(a, b),
               !.registerA = AddMasked(a, b),
               !.flags.carry = AddCarry(a, b)]
  IN updateFlags(w1, w1.registerA)

SUB(w, addr) ==
  LET a == w.registerA
      b == RamRead(w, addr)
      w1 == [w EXCEPT
               !.activeComponents =
                  Components(TRUE, TRUE, TRUE, TRUE, FALSE, TRUE, TRUE, FALSE),
               !.currentRamAddress = addr,
               !.alu.operation = "SUB",
               !.alu.inputA = a,
               !.alu.inputB = b,
               !.alu.result = SubMasked(a, b),
               !.alu.active = TRUE,
               !.registerA = SubMasked(a, b),
               !.flags.carry = SubCarry(a, b)]
  IN updateFlags(w1, w1.registerA)

\* this.ram[addr] = this.registerA: an element store for a byte address, the
\* creation of the property "undefined" when the operand is undefined
STA(w, addr) ==
  LET w1 == [w EXCEPT
               !.activeComponents =
                  Components(FALSE, TRUE, TRUE, TRUE, FALSE, TRUE, TRUE, FALSE)]
  IN IF addr \in Addresses
       THEN [w1 EXCEPT !.ram[addr] = ToUint8(w.registerA)]
       ELSE [w1 EXCEPT !.ramExpando = w.registerA]

\* LDI that leaves the zero flag alone
LDI_skipsFlags(w, value) ==
  [w EXCEPT
     !.activeComponents =
        Components(FALSE, FALSE, TRUE, TRUE, FALSE, TRUE, TRUE, FALSE),
     !.registerA = value]

LDI(w, value) ==
  LET w1 == [w EXCEPT
               !.activeComponents =
                  Components(FALSE, FALSE, TRUE, TRUE, FALSE, TRUE, TRUE, FALSE),
               !.registerA = value]
  IN updateFlags(w1, w1.registerA)

JMP(w, addr) ==
  [w EXCEPT
     !.activeComponents =
        Components(FALSE, FALSE, TRUE, FALSE, FALSE, TRUE, TRUE, FALSE),
     !.programCounter = addr]

\* JC that jumps whatever the carry flag is
JC_unconditional(w, addr) ==
  [w EXCEPT
     !.activeComponents =
        Components(FALSE, FALSE, TRUE, FALSE, FALSE, TRUE, TRUE, FALSE),
     !.programCounter = addr]

JC(w, addr) ==
  [w EXCEPT
     !.activeComponents =
        Components(FALSE, FALSE, TRUE, FALSE, FALSE, TRUE, TRUE, FALSE),
     !.programCounter = IF w.flags.carry THEN addr ELSE @]

JZ(w, addr) ==
  [w EXCEPT
     !.activeComponents =
        Components(FALSE, FALSE, TRUE, FALSE, FALSE, TRUE, TRUE, FALSE),
     !.programCounter = IF w.flags.zero THEN addr ELSE @]

OUT(w) ==
  [w EXCEPT
     !.activeComponents =
        Components(FALSE, FALSE, TRUE, TRUE, FALSE, TRUE, TRUE, TRUE),
     !.outputRegister = w.registerA]

\* HLT that moves the program counter back onto itself
HLT_parks(w) ==
  [w EXCEPT
     !.activeComponents =
        Components(FALSE, FALSE, TRUE, FALSE, FALSE, TRUE, TRUE, FALSE),
     !.programCounter = @ - 1]

HLT(w) ==
  [w EXCEPT !.activeComponents =
     Components(FALSE, FALSE, TRUE, FALSE, FALSE, TRUE, TRUE, FALSE)]

\* executeFn(operand) for the decoded mnemonic
Execute(name, w, operand) ==
  CASE name = "NOP" -> NOP(w)
    [] name = "LDA" -> LDA(w, operand)
    [] name = "ADD" -> ADD(w, operand)
    [] name = "SUB" -> SUB(w, operand)
    [] name = "STA" -> STA(w, operand)
    [] name = "LDI" -> LDI(w, operand)
    [] name = "JMP" -> JMP(w, operand)
    [] name = "JC"  -> JC(w, operand)
    [] name = "JZ"  -> JZ(w, operand)
    [] name = "OUT" -> OUT(w)
    [] name = "HLT" -> HLT(w)

\* the value executeFn returns: 'HALT' from HLT, undefined from the others
ExecuteResult(name) == IF name = "HLT" THEN "HALT" ELSE "undefined"

\* the data-memory index executeFn uses, if any
ExecuteRamIndex(name, operand) ==
  IF name \in {"LDA", "ADD", "SUB", "STA"} THEN {operand} ELSE {}

(***************************************************************************)
(* The browser's interval table.                                           *)
(***************************************************************************)
\* clearInterval(id): cancelling an id that is not active does nothing
clearInterval(ivs, id) == [i \in (DOMAIN ivs) \ {id} |-> ivs[i]]

\* the id setInterval returns: one no active interval and no held handle has.
\* Ids are only ever compared for equality, so the least unused one stands
\* for the browser's next id.
FreshId(ivs, held) ==
  CHOOSE i \in 1 .. (Cardinality(DOMAIN ivs) + 2) :
     /\ i \notin DOMAIN ivs
     /\ i # held
     /\ \A j \in 1 .. (i - 1) : j \in DOMAIN ivs \/ j = held

\* setInterval(callback, period)
setInterval(ivs, id, period) ==
  [i \in (DOMAIN ivs) \cup {id} |-> IF i = id THEN period ELSE ivs[i]]

\* if (this.timer): null is falsy, every interval id is truthy
Truthy(t) == t # null

(***************************************************************************)
(* The methods of the CPU.                                                 *)
(***************************************************************************)
ZeroMemory == [a \in Addresses |-> 0]

\* reset() that also clears the line map
reset_clearsMap(w) ==
  [w EXCEPT
     !.registerA = 0,
     !.registerB = 0,
     !.programCounter = 0,
     !.instructionRegister = 0,
     !.flags = [zero |-> FALSE, carry |-> FALSE],
     !.running = FALSE,
     !.outputRegister = 0,
     !.currentSourceLine = 0,
     !.pcToLineMap = [a \in {} |-> 0],
     !.rom = ZeroMemory,
     !.ram = ZeroMemory,
     !.intervals = IF Truthy(w.timer) THEN clearInterval(@, w.timer) ELSE @,
     !.timer = IF Truthy(w.timer) THEN null ELSE @,
     !.activeComponents =
        Components(FALSE, FALSE, FALSE, FALSE, FALSE, FALSE, TRUE, FALSE)]

reset(w) ==
  [w EXCEPT
     !.registerA = 0,
     !.registerB = 0,
     !.programCounter = 0,
     !.instructionRegister = 0,
     !.flags = [zero |-> FALSE, carry |-> FALSE],
     !.running = FALSE,
     !.outputRegister = 0,
     !.currentSourceLine = 0,
     !.rom = ZeroMemory,
     !.ram = ZeroMemory,
     !.intervals = IF Truthy(w.timer) THEN clearInterval(@, w.timer) ELSE @,
     !.timer = IF Truthy(w.timer) THEN null ELSE @,
     !.activeComponents =
        Components(FALSE, FALSE, FALSE, FALSE, FALSE, FALSE, TRUE, FALSE)]

\* program is the array handed to loadProgram, as a sequence (program[i] of
\* the source is program[i + 1] here)
loadProgram(w, program) ==
  LET savedMapping == w.pcToLineMap
      w1 == reset(w)
  IN [w1 EXCEPT
        !.pcToLineMap = savedMapping,
        !.ram = ZeroMemory,
        !.rom = [a \in Addresses |->
                   IF a < Len(program) THEN ToUint8(program[a + 1]) ELSE 0]]

\* step() that refuses to fetch once the instruction register holds HLT
step_parksOnHalt(w) ==
  IF w.instructionRegister = instructionSet["HLT"].opcode
    THEN [cpu |-> w, result |-> "HALT", romIndex |-> {}, ramIndex |-> {}]
    ELSE [cpu |-> [w EXCEPT
                     !.instructionRegister = RomRead(w.rom, w.programCounter),
                     !.programCounter = Increment(w.programCounter)],
          result |-> "null", romIndex |-> {w.programCounter}, ramIndex |-> {}]

\* step(): the CPU afterwards, the value returned, and the indices used on
\* the two memories
step(w) ==
  LET line == LineOf(w.pcToLineMap, w.programCounter)
      ir == RomRead(w.rom, w.programCounter)
      name == Decode(ir)
      hasOperand == name # "none" /\ instructionSet[name].operands > 0
      pc1 == IF hasOperand THEN Increment(w.programCounter) ELSE w.programCounter
      operand == IF hasOperand THEN RomRead(w.rom, pc1) ELSE null
      pc2 == Increment(pc1)
      fetched == [w EXCEPT
                    !.currentSourceLine = line,
                    !.instructionRegister = ir,
                    !.programCounter = pc2,
                    !.activeComponents =
                       Components(FALSE, FALSE, TRUE, FALSE, FALSE, TRUE, TRUE, FALSE)]
      \* the units step() marks before it calls executeFn
      marked == [fetched EXCEPT
                   !.activeComponents =
                      Components(TRUE,
                                 name \in {"LDA", "ADD", "SUB", "STA"},
                                 TRUE,
                                 name \in {"LDA", "ADD", "SUB", "LDI", "STA",
                                           "OUT"},
                                 FALSE, TRUE, TRUE,
                                 name = "OUT")]
      romIndex == {w.programCounter} \cup (IF hasOperand THEN {pc1} ELSE {})
  IN IF name = "none"
       THEN [cpu |-> fetched, result |-> "undefined",
             romIndex |-> romIndex, ramIndex |-> {}]
       ELSE [cpu |-> Execute(name, marked, operand),
             result |-> IF ExecuteResult(name) = "HALT" THEN "HALT" ELSE "null",
             romIndex |-> romIndex,
             ramIndex |-> ExecuteRamIndex(name, operand)]

\* stop() that forgets to cancel the interval
stop_keepsInterval(w) == [w EXCEPT !.running = FALSE]

\* stop() that also rewinds the program counter
stop_rewinds(w) ==
  [w EXCEPT
     !.running = FALSE,
     !.programCounter = 0,
     !.intervals = IF Truthy(w.timer) THEN clearInterval(@, w.timer) ELSE @,
     !.timer = IF Truthy(w.timer) THEN null ELSE @]

stop(w) ==
  [w EXCEPT
     !.running = FALSE,
     !.intervals = IF Truthy(w.timer) THEN clearInterval(@, w.timer) ELSE @,
     !.timer = IF Truthy(w.timer) THEN null ELSE @]

\* run() without the already-running guard
run_unguarded(w) ==
  LET id == FreshId(w.intervals, w.timer)
  IN [w EXCEPT
        !.running = TRUE,
        !.timer = id,
        !.intervals = setInterval(@, id, Period(w.clockSpeed))]

run(w) ==
  IF w.running
    THEN w
    ELSE LET id == FreshId(w.intervals, w.timer)
         IN [w EXCEPT
               !.running = TRUE,
               !.timer = id,
               !.intervals = setInterval(@, id, Period(w.clockSpeed))]

\* a callback that stops only at the end of memory, not on HALT
tick_ignoresHalt(w) ==
  LET s == step(w)
  IN IF GreaterOrEqual(s.cpu.programCounter, MemSize)
       THEN [s EXCEPT !.cpu = stop(s.cpu)]
       ELSE s

\* a callback that steps twice when the clock is faster than 1 Hz
tick_catchesUp(w) ==
  LET first == step(w)
      s == IF w.clockSpeed > 1 THEN step(first.cpu) ELSE first
  IN IF s.result = "HALT" \/ GreaterOrEqual(s.cpu.programCounter, MemSize)
       THEN [s EXCEPT !.cpu = stop(s.cpu)]
       ELSE s

\* a callback that stops on HALT only, not at the end of memory
tick_stopsOnlyOnHalt(w) ==
  LET s == step(w)
  IN IF s.result = "HALT"
       THEN [s EXCEPT !.cpu = stop(s.cpu)]
       ELSE s

\* the callback run() hands to setInterval
tick(w) ==
  LET s == step(w)
  IN IF s.result = "HALT" \/ GreaterOrEqual(s.cpu.programCounter, MemSize)
       THEN [s EXCEPT !.cpu = stop(s.cpu)]
       ELSE s

\* setClockSpeed() that restarts without cancelling the old interval
setClockSpeed_noCancel(w, speed) ==
  LET w1 == [w EXCEPT !.clockSpeed = speed]
  IN IF w1.running /\ Truthy(w1.timer)
       THEN run([w1 EXCEPT !.running = FALSE])
       ELSE w1

setClockSpeed(w, speed) ==
  LET w1 == [w EXCEPT !.clockSpeed = speed]
  IN IF w1.running /\ Truthy(w1.timer)
       THEN run([w1 EXCEPT !.intervals = clearInterval(@, w1.timer)])
       ELSE w1

\* the containers of the CPU that getState() reads
Containers == {"flags", "rom", "ram", "alu", "activeComponents"}

\* getState() that hands out the CPU's own flags object
getState_sharesFlags(w) ==
  [registerA |-> w.registerA,
   registerB |-> w.registerB,
   programCounter |-> w.programCounter,
   instructionRegister |-> w.instructionRegister,
   flags |-> w.flags,
   rom |-> w.rom,
   ram |-> w.ram,
   alu |-> w.alu,
   activeComponents |-> w.activeComponents,
   currentRamAddress |-> w.currentRamAddress,
   outputRegister |-> w.outputRegister,
   currentSourceLine |-> w.currentSourceLine,
   aliases |-> {"flags"}]

\* getState(): a new object with the scalar fields and a copy of each
\* container ({ ...object } and [...array] build new objects), so the set of
\* containers the result shares with the CPU is empty
getState(w) ==
  [registerA |-> w.registerA,
   registerB |-> w.registerB,
   programCounter |-> w.programCounter,
   instructionRegister |-> w.instructionRegister,
   flags |-> w.flags,
   rom |-> w.rom,
   ram |-> w.ram,
   alu |-> w.alu,
   activeComponents |-> w.activeComponents,
   currentRamAddress |-> w.currentRamAddress,
   outputRegister |-> w.outputRegister,
   currentSourceLine |-> w.currentSourceLine,
   aliases |-> {}]

\* what the holder of a getState() result reads in it while the CPU is w: a
\* shared container shows the CPU's content, a copy shows its own
Observed(state, w) ==
  [f \in (DOMAIN state) \ {"aliases"} |->
     IF f \in state.aliases THEN w[f] ELSE state[f]]

\* the holder of a getState() result stores into one of its containers: the
\* result afterwards, and the CPU afterwards (written too when it shares
\* the container)
WriteContainer(state, w, container, content) ==
  [state |-> [state EXCEPT ![container] = content],
   cpu |-> IF container \in state.aliases
             THEN [w EXCEPT ![container] = content]
             ELSE w]

(***************************************************************************)
(* Source text.  A string is a sequence of one-character strings; the      *)
(* operators below are the String methods assembleCode uses.               *)
(***************************************************************************)
\* the characters trim() strips and /\s/ matches, among those a text of the
\* model is made of (codes 0 to 127): tab, line feed, vertical tab, form
\* feed, carriage return, space
VerticalTab == ""
Whitespace == {" ", "\t", "\n", VerticalTab, "\f", "\r"}
Digits == <<"0", "1", "2", "3", "4", "5", "6", "7", "8", "9">>
LowerCase == <<"a", "b", "c", "d", "e", "f", "g", "h", "i", "j", "k", "l", "m",
               "n", "o", "p", "q", "r", "s", "t", "u", "v", "w", "x", "y", "z">>
UpperCase == <<"A", "B", "C", "D", "E", "F", "G", "H", "I", "J", "K", "L", "M",
               "N", "O", "P", "Q", "R", "S", "T", "U", "V", "W", "X", "Y", "Z">>

\* s.trimStart() and s.trim()
trimStart(s) ==
  LET kept == SelectSeq([i \in 1 .. Len(s) |-> i],
                        LAMBDA i : s[i] \notin Whitespace)
  IN IF kept = <<>> THEN <<>>
     ELSE SubSeq(s, kept[1], Len(s))

trim(s) ==
  LET kept == SelectSeq([i \in 1 .. Len(s) |-> i],
                        LAMBDA i : s[i] \notin Whitespace)
  IN IF kept = <<>> THEN <<>>
     ELSE SubSeq(s, kept[1], kept[Len(kept)])

\* s.includes(c) and s.startsWith(c) for a one-character c
includes(s, c) == \E i \in 1 .. Len(s) : s[i] = c
startsWith(s, c) == Len(s) > 0 /\ s[1] = c

\* s.split(c) for a one-character separator: the pieces between separators,
\* empty pieces included
split(s, c) ==
  LET at == SelectSeq([i \in 1 .. Len(s) |-> i], LAMBDA i : s[i] = c)
      from(k) == IF k = 1 THEN 1 ELSE at[k - 1] + 1
      to(k) == IF k = Len(at) + 1 THEN Len(s) ELSE at[k] - 1
  IN [k \in 1 .. (Len(at) + 1) |-> SubSeq(s, from(k), to(k))]

\* s.split(/\s+/): the pieces between maximal runs of whitespace
RECURSIVE splitWhitespace(_)
splitWhitespace(s) ==
  IF \E i \in 1 .. Len(s) : s[i] \in Whitespace
    THEN LET i == CHOOSE i \in 1 .. Len(s) :
                     s[i] \in Whitespace
                       /\ \A j \in 1 .. (i - 1) : s[j] \notin Whitespace
         IN <<SubSeq(s, 1, i - 1)>>
              \o splitWhitespace(trimStart(SubSeq(s, i + 1, Len(s))))
    ELSE <<s>>

\* a toUpperCase() that leaves every character as it is
toUpperCase_identity(s) == s

\* s.toUpperCase()
toUpperCase(s) ==
  [i \in 1 .. Len(s) |->
     IF \E k \in 1 .. 26 : LowerCase[k] = s[i]
       THEN UpperCase[CHOOSE k \in 1 .. 26 : LowerCase[k] = s[i]]
       ELSE s[i]]

\* the digits of a radix and the number a string of them denotes
RadixDigits(radix) ==
  SubSeq(Digits \o <<"A", "B", "C", "D", "E", "F">>, 1, radix)

IsRadixDigit(c, radix) ==
  \E i \in 1 .. radix : RadixDigits(radix)[i] = toUpperCase(<<c>>)[1]

RadixDigitValue(c, radix) ==
  (CHOOSE i \in 1 .. radix : RadixDigits(radix)[i] = toUpperCase(<<c>>)[1]) - 1

RECURSIVE RadixValue(_, _)
RadixValue(s, radix) ==
  IF s = <<>> THEN 0
  ELSE radix * RadixValue(SubSeq(s, 1, Len(s) - 1), radix)
         + RadixDigitValue(s[Len(s)], radix)

AllDigits(s, radix) == \A i \in 1 .. Len(s) : IsRadixDigit(s[i], radix)

\* a token without its leading + or -
Unsigned(s) ==
  IF Len(s) > 0 /\ s[1] \in {"+", "-"} THEN Tail(s) ELSE s

\* a token that starts with 0 and one of the two given letters
HasPrefix(s, lower, upper) ==
  Len(s) >= 2 /\ s[1] = "0" /\ s[2] \in {lower, upper}

\* the decimal literals of Number(s): digits with an optional fraction and
\* an optional exponent, or Infinity
IsDecimalLiteral(s) ==
  LET marks == {i \in 1 .. Len(s) : s[i] \in {"e", "E"}}
      e == IF marks = {} THEN Len(s) + 1
           ELSE CHOOSE i \in marks : \A j \in marks : i <= j
      mantissa == SubSeq(s, 1, e - 1)
      exponent == Unsigned(SubSeq(s, e + 1, Len(s)))
      pieces == split(mantissa, ".")
  IN \/ s = <<"I", "n", "f", "i", "n", "i", "t", "y">>
     \/ /\ Len(pieces) <= 2
        /\ \A k \in 1 .. Len(pieces) : AllDigits(pieces[k], 10)
        /\ \E k \in 1 .. Len(pieces) : pieces[k] # <<>>
        /\ (marks # {} => exponent # <<>> /\ AllDigits(exponent, 10))

\* isNaN(s) for a token s without whitespace: Number(s) is a number when s
\* is empty, a signed decimal literal, or an unsigned 0x, 0o or 0b literal
isNaN(s) ==
  ~ \/ s = <<>>
    \/ IsDecimalLiteral(Unsigned(s))
    \/ HasPrefix(s, "x", "X") /\ Len(s) > 2 /\ AllDigits(SubSeq(s, 3, Len(s)), 16)
    \/ HasPrefix(s, "o", "O") /\ Len(s) > 2 /\ AllDigits(SubSeq(s, 3, Len(s)), 8)
    \/ HasPrefix(s, "b", "B") /\ Len(s) > 2 /\ AllDigits(SubSeq(s, 3, Len(s)), 2)

\* a JavaScript number that may be negative: NaN, or an integer
NotANumber == [number |-> FALSE, value |-> 0]
Number(v) == [number |-> TRUE, value |-> v]

\* parseInt(s) for a token s without whitespace: an optional sign, an
\* optional 0x, then the value of the leading digits, NaN when there are none
parseInt(s) ==
  LET body == Unsigned(s)
      radix == IF HasPrefix(body, "x", "X") THEN 16 ELSE 10
      digits == IF radix = 16 THEN SubSeq(body, 3, Len(body)) ELSE body
      others == {i \in 1 .. Len(digits) : ~IsRadixDigit(digits[i], radix)}
      n == IF others = {} THEN Len(digits)
           ELSE (CHOOSE i \in others : \A j \in others : i <= j) - 1
      magnitude == RadixValue(SubSeq(digits, 1, n), radix)
  IN IF n = 0 THEN NotANumber
     ELSE Number(IF startsWith(s, "-") THEN 0 - magnitude ELSE magnitude)

\* v & 0xFF: NaN becomes 0, a negative number wraps
Mask8(v) == IF v.number THEN v.value % 256 ELSE 0

\* obj[key] = value on a plain object
Put(obj, key, value) ==
  [k \in (DOMAIN obj) \cup {key} |-> IF k = key THEN value ELSE obj[k]]

\* __proto__, the accessor a plain object inherits
ProtoName == <<"_", "_", "p", "r", "o", "t", "o", "_", "_">>

\* labels[labelName] = currentAddress on the plain object labels: under the
\* name __proto__ the store goes to the inherited setter, which ignores a
\* number, and no entry is made
PutLabel(labels, labelName, currentAddress) ==
  IF labelName = ProtoName THEN labels
  ELSE Put(labels, labelName, currentAddress)

\* the keys of instructionSet as they are spelled in source text
MnemonicText ==
  [n \in Mnemonics |->
     CASE n = "NOP" -> <<"N", "O", "P">>
       [] n = "LDA" -> <<"L", "D", "A">>
       [] n = "ADD" -> <<"A", "D", "D">>
       [] n = "SUB" -> <<"S", "U", "B">>
       [] n = "STA" -> <<"S", "T", "A">>
       [] n = "LDI" -> <<"L", "D", "I">>
       [] n = "JMP" -> <<"J", "M", "P">>
       [] n = "JC"  -> <<"J", "C">>
       [] n = "JZ"  -> <<"J", "Z">>
       [] n = "OUT" -> <<"O", "U", "T">>
       [] n = "HLT" -> <<"H", "L", "T">>]

\* this.instructionSet[instruction]: the mnemonic, or "none" when undefined
Lookup(instruction) ==
  IF \E n \in Mnemonics : MnemonicText[n] = instruction
    THEN CHOOSE n \in Mnemonics : MnemonicText[n] = instruction
    ELSE "none"

(***************************************************************************)
(* assembleCode(code)                                                      *)
(***************************************************************************)
\* the filter of lines: not empty and not a comment
IsCodeLine(line) == ~(trim(line) = <<>> \/ startsWith(trim(line), ";"))

\* codeLines, and lineIndexMap as a sequence: lineIndexMap[k] of the source
\* is LineIndexMap(lines)[k + 1]
CodeLines(lines) == SelectSeq(lines, IsCodeLine)

LineIndexMap(lines) ==
  LET kept == SelectSeq([i \in 1 .. Len(lines) |-> i],
                        LAMBDA i : IsCodeLine(lines[i]))
  IN [k \in 1 .. Len(kept) |-> kept[k] - 1]

\* the instruction text of a line: what follows the first colon, else the line
InstructionLine(trimmedLine) ==
  IF includes(trimmedLine, ":")
    THEN trim(split(trimmedLine, ":")[2])
    ELSE trimmedLine

\* a size that counts one byte for an unknown mnemonic
InstructionSize_countsUnknown(instructionLine) ==
  LET parts == splitWhitespace(instructionLine)
      instruction == Lookup(toUpperCase(parts[1]))
  IN IF instructionLine = <<>> THEN 0
     ELSE IF instruction = "none" THEN 1
     ELSE 1 + instructionSet[instruction].operands

\* 1 + operand_count of the line's mnemonic, 0 when it is not an instruction
InstructionSize(instructionLine) ==
  LET parts == splitWhitespace(instructionLine)
      instruction == Lookup(toUpperCase(parts[1]))
  IN IF instructionLine = <<>> \/ instruction = "none" THEN 0
     ELSE 1 + instructionSet[instruction].operands

\* one turn of the first pass's loop: st is [labels, pcToLineMap,
\* currentAddress] before line k, the result what it is after it
FirstPassLine(codeLines, lineIndexMap, k, st) ==
  LET trimmedLine == trim(codeLines[k])
      mapped == Put(st.pcToLineMap, st.currentAddress, lineIndexMap[k])
      advanced == st.currentAddress
                    + InstructionSize(InstructionLine(trimmedLine))
  IN IF includes(trimmedLine, ":")
       THEN [labels |-> PutLabel(st.labels,
                                 trim(split(trimmedLine, ":")[1]),
                                 st.currentAddress),
             pcToLineMap |-> mapped,
             currentAddress |-> advanced]
       ELSE [labels |-> st.labels,
             pcToLineMap |-> mapped,
             currentAddress |-> advanced]

\* the turns for the lines lo .. hi, in order.  The range is halved, and
\* the state after the first half is completed before the second half is
\* entered, so that the nesting stays shallow for long texts.
RECURSIVE FirstPassLines(_, _, _, _, _)
FirstPassLines(codeLines, lineIndexMap, lo, hi, st) ==
  IF lo > hi THEN st
  ELSE IF lo = hi THEN FirstPassLine(codeLines, lineIndexMap, lo, st)
  ELSE LET mid == (lo + hi) \div 2
           half == FirstPassLines(codeLines, lineIndexMap, lo, mid, st)
       IN IF half.currentAddress \in Nat
            THEN FirstPassLines(codeLines, lineIndexMap, mid + 1, hi, half)
            ELSE half

\* first pass over the lines from k on
FirstPass(codeLines, lineIndexMap, k, st) ==
  FirstPassLines(codeLines, lineIndexMap, k, Len(codeLines), st)

\* the bytes the second pass pushes for one line
EmitLine(line, labels) ==
  LET instructionLine == InstructionLine(trim(line))
      parts == splitWhitespace(instructionLine)
      instruction == Lookup(toUpperCase(parts[1]))
      hasOperand == Len(parts) > 1 /\ parts[2] # <<>>
      operand == parts[2]
      \* labels[operand] !== undefined holds for a label of the text and for
      \* __proto__, which reads Object.prototype: parseInt of that object is
      \* NaN.  (The other inherited names read a function, which parseInt
      \* turns into NaN as it does the name itself.)
      value == IF isNaN(operand) /\ operand \in DOMAIN labels
                 THEN Number(labels[operand])
                 ELSE IF isNaN(operand) /\ operand = ProtoName
                   THEN NotANumber
                   ELSE parseInt(operand)
  IN IF instructionLine = <<>> \/ instruction = "none" THEN <<>>
     ELSE IF instructionSet[instruction].operands > 0 /\ hasOperand
       THEN <<instructionSet[instruction].opcode, Mask8(value)>>
       ELSE <<instructionSet[instruction].opcode>>

\* the bytes pushed for the lines lo .. hi, in order
RECURSIVE SecondPassLines(_, _, _, _)
SecondPassLines(codeLines, labels, lo, hi) ==
  IF lo > hi THEN <<>>
  ELSE IF lo = hi THEN EmitLine(codeLines[lo], labels)
  ELSE LET mid == (lo + hi) \div 2
       IN SecondPassLines(codeLines, labels, lo, mid)
            \o SecondPassLines(codeLines, labels, mid + 1, hi)

\* second pass over the lines from k on
SecondPass(codeLines, labels, k) ==
  SecondPassLines(codeLines, labels, k, Len(codeLines))

\* assembleCode(code): the returned machine code, the pcToLineMap it leaves
\* in the CPU, and the label table of the call
assembleCode(code) ==
  LET lines == split(trim(code), "\n")
      codeLines == CodeLines(lines)
      first == FirstPass(codeLines, LineIndexMap(lines), 1,
                         [labels |-> [l \in {} |-> 0],
                          pcToLineMap |-> [a \in {} |-> 0],
                          currentAddress |-> 0])
  IN [machineCode |-> SecondPass(codeLines, first.labels, 1),
      pcToLineMap |-> first.pcToLineMap,
      labels |-> first.labels]

\* assembleCode(code) that adds its entries to the map already there
assemble_keepsEntries(w, code) ==
  LET assembled == assembleCode(code)
  IN [cpu |-> [w EXCEPT
                 !.pcToLineMap =
                    [a \in (DOMAIN w.pcToLineMap)
                              \cup (DOMAIN assembled.pcToLineMap) |->
                       IF a \in DOMAIN assembled.pcToLineMap
                         THEN assembled.pcToLineMap[a]
                         ELSE w.pcToLineMap[a]]],
      result |-> assembled.machineCode]

\* assembleCode(code) as a method of the CPU w: the CPU afterwards (its map
\* is emptied, then filled by the first pass) and the array returned
assemble(w, code) ==
  LET assembled == assembleCode(code)
  IN [cpu |-> [w EXCEPT !.pcToLineMap = assembled.pcToLineMap],
      result |-> assembled.machineCode]

(***************************************************************************)
(* Program images the caller loads.                                        *)
(***************************************************************************)
\* LDI 7 / STA 20 / ADD 20 / OUT / HLT
ProgSmall == <<5, 7, 4, 20, 2, 20, 9, 15>>

\* LDI 7 / JMP 255 / ... / an opcode in the last byte of instruction memory
ProgEdge(op) ==
  [i \in 1 .. MemSize |->
     CASE i = 1 -> 5
       [] i = 2 -> 7
       [] i = 3 -> 6
       [] i = 4 -> 255
       [] i = MemSize -> op
       [] OTHER -> 0]

\* HLT alone
ProgHalt == <<15>>

\* LDI 7 / NOP ... and one byte more than instruction memory holds
ProgLong ==
  [i \in 1 .. (MemSize + 1) |->
     CASE i = 1 -> 5
       [] i = 2 -> 7
       [] i = MemSize + 1 -> 15
       [] OTHER -> 0]

\* NOP alone, JMP 0, and LDI 1 in every pair of bytes of instruction memory
ProgNop == <<0>>
ProgLoop == <<6, 0>>
ProgFill == [i \in 1 .. MemSize |-> IF i % 2 = 1 THEN 5 ELSE 1]

\* programs to run to their end: without a jump, and with one
RunPrograms ==
  {ProgNop, ProgSmall, ProgLong, ProgFill, ProgLoop,
   ProgEdge(0), ProgEdge(5), ProgEdge(6)}

\* programs whose last instruction stores to, or loads from, the operand
\* fetched past the end of instruction memory, and two ordinary ones
LoadPrograms == {ProgSmall, ProgLong, ProgEdge(4), ProgEdge(1)}

EdgeOpcodes == {0, 1, 4, 5, 6, 15}

Programs == {ProgSmall, ProgHalt} \cup {ProgEdge(op) : op \in EdgeOpcodes}

(***************************************************************************)
(* Source texts the caller assembles.                                      *)
(***************************************************************************)
\* String(v) for a non-negative integer
RECURSIVE ToDecimal(_)
ToDecimal(v) ==
  IF v < 10 THEN <<Digits[v + 1]>>
  ELSE ToDecimal(v \div 10) \o <<Digits[(v % 10) + 1]>>

Repeat(text, n) ==
  [i \in 1 .. (n * Len(text)) |-> text[((i - 1) % Len(text)) + 1]]

\* the nine-line example: LDI 6 / STA 20 / LDI 7 / STA 21 / LDA 20 / ADD 21 /
\* STA 22 / OUT / HLT
SrcNineLine ==
  <<"L", "D", "I", " ", "6", "\n", "S", "T", "A", " ", "2", "0", "\n", "L",
    "D", "I", " ", "7", "\n", "S", "T", "A", " ", "2", "1", "\n", "L", "D",
    "A", " ", "2", "0", "\n", "A", "D", "D", " ", "2", "1", "\n", "S", "T",
    "A", " ", "2", "2", "\n", "O", "U", "T", "\n", "H", "L", "T">>

\* LDI v / OUT
SrcLdiOut(v) == <<"L", "D", "I", " ">> \o ToDecimal(v) \o <<"\n", "O", "U", "T">>

\* pad NOP lines, then a label used before and after its definition:
\* JMP L / NOP ... / L: OUT / JMP L / HLT, the label on a line of its own or
\* on the line of OUT
SrcLabel(pad, inline) ==
  <<"J", "M", "P", " ", "L", "\n">>
    \o Repeat(<<"N", "O", "P", "\n">>, pad)
    \o <<"L", ":">> \o (IF inline THEN <<" ">> ELSE <<"\n">>)
    \o <<"O", "U", "T", "\n", "J", "M", "P", " ", "L", "\n", "H", "L", "T">>

\* JMP L / LDA without its operand / L: / OUT / JMP L / HLT
SrcLabelAfterBare ==
  <<"J", "M", "P", " ", "L", "\n", "L", "D", "A", "\n", "L", ":", "\n",
    "O", "U", "T", "\n", "J", "M", "P", " ", "L", "\n", "H", "L", "T">>

\* an operand that is neither a number nor a defined label
SrcUnresolved ==
  <<"L", "D", "I", " ", "9", "\n", "J", "M", "P", " ", "N", "O", "W", "H",
    "E", "R", "E", "\n", "H", "L", "T">>

\* unknown mnemonics: on a line of their own, and after a label
SrcUnknownLine ==
  <<"J", "M", "P", " ", "L", "\n", "F", "O", "O", " ", "2", "\n", "L", ":",
    " ", "O", "U", "T", "\n", "H", "L", "T">>

SrcUnknownAfterLabel ==
  <<"J", "M", "P", " ", "L", "\n", "L", ":", " ", "F", "O", "O", "\n", "O",
    "U", "T", "\n", "H", "L", "T">>

\* blank lines before the first instruction, and a comment and a blank line
\* between instructions
SrcLeadingBlank ==
  <<"\n", "\n", "L", "D", "I", " ", "1", "\n", "O", "U", "T", "\n", "H",
    "L", "T">>

SrcCommented ==
  <<";", " ", "s", "t", "a", "r", "t", "\n", "L", "D", "I", " ", "1", "\n",
    "\n", ";", " ", "s", "h", "o", "w", "\n", "O", "U", "T", "\n", "H",
    "L", "T">>

\* lower-case mnemonics
SrcLowerCase ==
  <<"l", "d", "i", " ", "3", "\n", "O", "u", "t", "\n", "h", "l", "t">>

\* JMP l / L: OUT / HLT: the operand differs from the label in case only
SrcLabelCase ==
  <<"J", "M", "P", " ", "l", "\n", "L", ":", " ", "O", "U", "T", "\n", "H",
    "L", "T">>

\* form feed and vertical tab as white space: around the text, between
\* mnemonic and operand, and after a label
SrcFormFeed ==
  <<"\f", "L", "D", "I", "\f", "7", "\n", VerticalTab, "O", "U", "T",
    VerticalTab, "\n", "L", "\f", ":", " ", "H", "L", "T", "\n", "J", "M",
    "P", VerticalTab, "L", "\f">>

\* the label text with the label named __proto__:
\* JMP __proto__ / NOP / __proto__: OUT / JMP __proto__ / HLT
SrcProto ==
  <<"J", "M", "P", " ">> \o ProtoName \o <<"\n", "N", "O", "P", "\n">>
    \o ProtoName \o <<":", " ", "O", "U", "T", "\n", "J", "M", "P", " ">>
    \o ProtoName \o <<"\n", "H", "L", "T">>

\* n lines LDI 1, m lines OUT, then HLT: 2n + m + 1 bytes
SrcFill(n, m) ==
  Repeat(<<"L", "D", "I", " ", "1", "\n">>, n)
    \o Repeat(<<"O", "U", "T", "\n">>, m)
    \o <<"H", "L", "T">>

\* texts that assemble to one byte less than instruction memory holds, to
\* as many, and to one and two bytes more
FillSources ==
  {SrcFill(n, m) : n \in {(MemSize \div 2) - 1, MemSize \div 2}, m \in {0, 1}}

\* one line for each mnemonic of the instruction set
SrcAllMnemonics ==
  <<"N", "O", "P", "\n", "L", "D", "A", " ", "2", "0", "\n", "A", "D", "D",
    " ", "2", "0", "\n", "S", "U", "B", " ", "2", "0", "\n", "S", "T", "A",
    " ", "2", "0", "\n", "L", "D", "I", " ", "2", "0", "\n", "J", "M", "P",
    " ", "2", "0", "\n", "J", "C", " ", "2", "0", "\n", "J", "Z", " ", "2",
    "0", "\n", "O", "U", "T", "\n", "H", "L", "T">>

\* LDI -1 / OUT / LDI 0x1F / HLT: operands parseInt reads with a sign or in hex
SrcSigned ==
  <<"L", "D", "I", " ", "-", "1", "\n", "O", "U", "T", "\n", "L", "D", "I",
    " ", "0", "x", "1", "F", "\n", "H", "L", "T">>

MaxPad == 3

LabelSources ==
  {SrcLabel(pad, inline) : pad \in 0 .. MaxPad, inline \in BOOLEAN}
    \cup {SrcLabelAfterBare, SrcProto}

Sources ==
  LabelSources
    \cup {SrcNineLine, SrcUnresolved, SrcUnknownLine, SrcUnknownAfterLabel,
          SrcLeadingBlank, SrcCommented, SrcLowerCase, SrcSigned,
          SrcLabelCase, SrcFormFeed}
    \cup {SrcLdiOut(v) : v \in {0, 7, 255, 256, 300}}

(***************************************************************************)
(* Program arrays the caller builds for the arithmetic instructions.       *)
(***************************************************************************)
\* LDI b / STA 20 / LDI a / ADD 20 / SUB 20
AluProgram(a, b) == <<5, b, 4, 20, 5, a, 2, 20, 3, 20>>

\* LDI b / STA 20 / LDI a / ADD-or-SUB 20 / a jump to target
JumpProgram(a, b, op, jump, target) == <<5, b, 4, 20, 5, a, op, 20, jump, target>>

Bytes == 0 .. 255
FlagBytes == {0, 1, 255}
JumpTargets == {0, 200}

\* LDI b / STA 20 / LDI a / ADD 20 and then the byte op with operand 20
OpcodeProgram(a, b, op) == JumpProgram(a, b, 2, op, 20)

\* operands of the ADD that leave the four combinations of carry and zero
FlagSetups == {<<0, 0>>, <<1, 1>>, <<255, 1>>, <<255, 255>>}

OpcodePrograms ==
  {OpcodeProgram(setup[1], setup[2], op) : setup \in FlagSetups, op \in Bytes}

AluPrograms ==
  {AluProgram(a, b) : a \in Bytes, b \in Bytes}
    \cup {JumpProgram(a, b, op, jump, target) :
            a \in FlagBytes, b \in FlagBytes, op \in {2, 3}, jump \in {6, 7, 8},
            target \in JumpTargets}

(***************************************************************************)
(* The state machine.                                                      *)
(***************************************************************************)
\* the CPU the constructor leaves
constructed ==
  [registerA |-> 0,
   registerB |-> 0,
   programCounter |-> 0,
   instructionRegister |-> 0,
   flags |-> [zero |-> FALSE, carry |-> FALSE],
   outputRegister |-> 0,
   alu |-> [operation |-> "NONE", inputA |-> 0, inputB |-> 0, result |-> 0,
            active |-> FALSE],
   pcToLineMap |-> [a \in {} |-> 0],
   currentSourceLine |-> 0,
   rom |-> ZeroMemory,
   ram |-> ZeroMemory,
   ramExpando |-> undefined,
   currentRamAddress |-> null,
   activeComponents |->
     Components(FALSE, FALSE, FALSE, FALSE, FALSE, FALSE, FALSE, FALSE),
   clockSpeed |-> 1,
   running |-> FALSE,
   timer |-> null,
   intervals |-> [i \in {} |-> 0]]

\* the caller has not called getState() yet: what it holds is the object
\* literal it started with, which has no alu and no currentRamAddress and
\* marks the program counter active
NoSnapshot ==
  [taken |-> FALSE,
   state |->
     [registerA |-> 0,
      registerB |-> 0,
      programCounter |-> 0,
      instructionRegister |-> 0,
      outputRegister |-> 0,
      flags |-> [zero |-> FALSE, carry |-> FALSE],
      rom |-> ZeroMemory,
      ram |-> ZeroMemory,
      activeComponents |->
        Components(FALSE, FALSE, FALSE, FALSE, FALSE, FALSE, TRUE, FALSE),
      currentSourceLine |-> 0]]

\* the CPU object is w
Is(w) ==
  /\ registerA = w.registerA
  /\ registerB = w.registerB
  /\ programCounter = w.programCounter
  /\ instructionRegister = w.instructionRegister
  /\ flags = w.flags
  /\ outputRegister = w.outputRegister
  /\ alu = w.alu
  /\ pcToLineMap = w.pcToLineMap
  /\ currentSourceLine = w.currentSourceLine
  /\ rom = w.rom
  /\ ram = w.ram
  /\ ramExpando = w.ramExpando
  /\ currentRamAddress = w.currentRamAddress
  /\ activeComponents = w.activeComponents
  /\ clockSpeed = w.clockSpeed
  /\ running = w.running
  /\ timer = w.timer
  /\ intervals = w.intervals

\* nothing has been stepped yet, op being the last call made
Unstepped(op) ==
  /\ lastOp = op
  /\ lastResult = "none"
  /\ wasRunning = FALSE
  /\ stepRomIndex = {}
  /\ stepRamIndex = {}
  /\ halted = "no"
  /\ snapshot = NoSnapshot
  /\ cycles = 0

\* the state the constructor leaves
Init ==
  /\ Is(constructed)
  /\ Unstepped("constructor")
  /\ assemblyCode = <<>>
  /\ machineCode = <<>>

\* bookkeeping of an operation that is not a step
Called(op) ==
  /\ lastOp' = op
  /\ wasRunning' = running
  /\ stepRomIndex' = {}
  /\ stepRamIndex' = {}
  /\ UNCHANGED <<lastResult, assemblyCode, machineCode, snapshot>>

\* bookkeeping of a step, s being what step() or the callback produced
Stepped(op, s) ==
  /\ lastOp' = op
  /\ wasRunning' = running
  /\ lastResult' = s.result
  /\ stepRomIndex' = s.romIndex
  /\ stepRamIndex' = s.ramIndex
  /\ cycles' = cycles + 1
  /\ UNCHANGED <<assemblyCode, machineCode, snapshot>>

Reset ==
  /\ Becomes(reset(This))
  /\ Called("reset")
  /\ halted' = "no"
  /\ cycles' = 0

LoadProgram ==
  \E program \in Programs :
    /\ Becomes(loadProgram(This, program))
    /\ Called("loadProgram")
    /\ halted' = "no"
    /\ cycles' = 0

\* step() called by the caller
Step ==
  /\ cycles < MaxCycles
  /\ Becomes(step(This).cpu)
  /\ Stepped("step", step(This))
  /\ halted' = IF halted = "halted" THEN "stepped" ELSE "no"

Run ==
  /\ Becomes(run(This))
  /\ Called("run")
  /\ halted' = IF running THEN halted ELSE "no"
  /\ UNCHANGED cycles

Stop ==
  /\ Becomes(stop(This))
  /\ Called("stop")
  /\ UNCHANGED <<halted, cycles>>

SetClockSpeed ==
  \E speed \in ClockSpeeds :
    /\ Becomes(setClockSpeed(This, speed))
    /\ Called("setClockSpeed")
    /\ UNCHANGED <<halted, cycles>>

\* updateFlags(value) called from outside the instructions, with 0 and
\* with another value
UpdateFlags ==
  \E value \in {0, 1} :
    /\ Becomes(updateFlags(This, value))
    /\ Called("updateFlags")
    /\ UNCHANGED <<halted, cycles>>

\* assembleCode(assemblyCode): the map is replaced, the bytes are returned
AssembleCode ==
  /\ LET assembled == assemble(This, assemblyCode)
     IN /\ Becomes(assembled.cpu)
        /\ machineCode' = assembled.result
  /\ lastOp' = "assembleCode"
  /\ wasRunning' = running
  /\ stepRomIndex' = {}
  /\ stepRamIndex' = {}
  /\ UNCHANGED <<lastResult, halted, assemblyCode, snapshot, cycles>>

\* getState(): a copy of the fields is returned, the CPU is not written
GetState ==
  /\ Becomes(This)
  /\ Called("getState")
  /\ UNCHANGED <<halted, cycles>>

\* the browser fires an active interval
Tick ==
  \E id \in DOMAIN intervals :
    /\ cycles < MaxCycles
    /\ Becomes(tick(This).cpu)
    /\ Stepped("tick", tick(This))
    /\ halted' = IF tick(This).result = "HALT" THEN "halted" ELSE "no"

\* every method of the class, and the interval callback
Next ==
  \/ Reset
  \/ LoadProgram
  \/ Step
  \/ Run
  \/ Stop
  \/ SetClockSpeed
  \/ UpdateFlags
  \/ AssembleCode
  \/ GetState
  \/ Tick

Spec == Init /\ [][Next]_vars

\* the methods a user of the CPU calls and the interval callback:
\* updateFlags, which LDA, ADD, SUB and LDI call with registerA on the way
\* through step(), is not called on its own
NextOperations ==
  \/ Reset
  \/ LoadProgram
  \/ Step
  \/ Run
  \/ Stop
  \/ SetClockSpeed
  \/ AssembleCode
  \/ GetState
  \/ Tick

SpecOperations == Init /\ [][NextOperations]_vars

(***************************************************************************)
(* Assembling, and the specifications that start from a source text or a   *)
(* program array.                                                          *)
(***************************************************************************)
MaxAluCycles == 5
MaxProgramCycles == 10

\* loadProgram(program) with the array the caller holds
LoadAssembled ==
  /\ Becomes(loadProgram(This, machineCode))
  /\ Called("loadProgram")
  /\ halted' = "no"
  /\ cycles' = 0

\* step() and the interval callback, up to a given number of cycles
StepWithin(max) ==
  /\ cycles < max
  /\ Becomes(step(This).cpu)
  /\ Stepped("step", step(This))
  /\ halted' = IF halted = "halted" THEN "stepped" ELSE "no"

TickWithin(max) ==
  \E id \in DOMAIN intervals :
    /\ cycles < max
    /\ Becomes(tick(This).cpu)
    /\ Stepped("tick", tick(This))
    /\ halted' = IF tick(This).result = "HALT" THEN "halted" ELSE "no"

\* the arithmetic programs, loaded into a new CPU, stepped
InitAlu ==
  \E program \in AluPrograms :
    /\ Is(loadProgram(constructed, program))
    /\ Unstepped("loadProgram")
    /\ assemblyCode = <<>>
    /\ machineCode = program

AluStep == StepWithin(MaxAluCycles)

NextAlu == AluStep

SpecAlu == InitAlu /\ [][NextAlu]_vars

\* LDI v / OUT for every byte v: assembled, loaded, stepped
InitLdiOut ==
  /\ Is(constructed)
  /\ Unstepped("constructor")
  /\ assemblyCode \in {SrcLdiOut(v) : v \in Bytes}
  /\ machineCode = <<>>

LdiOutStep == StepWithin(MaxAluCycles)

NextLdiOut ==
  \/ AssembleCode
  \/ LoadAssembled
  \/ LdiOutStep

SpecLdiOut == InitLdiOut /\ [][NextLdiOut]_vars

\* whole programs: assembled, loaded, run and stepped
ProgramSources ==
  {SrcNineLine, SrcLabel(1, TRUE), SrcLdiOut(0), SrcLeadingBlank}

InitProgram ==
  /\ Is(constructed)
  /\ Unstepped("constructor")
  /\ assemblyCode \in ProgramSources
  /\ machineCode = <<>>

ProgramStep == StepWithin(MaxProgramCycles)

ProgramTick == TickWithin(MaxProgramCycles)

NextProgram ==
  \/ AssembleCode
  \/ LoadAssembled
  \/ ProgramStep
  \/ Run
  \/ ProgramTick

SpecProgram == InitProgram /\ [][NextProgram]_vars

\* the assembler on its own
InitAssembler ==
  /\ Is(constructed)
  /\ Unstepped("constructor")
  /\ assemblyCode \in Sources
  /\ machineCode = <<>>

NextAssembler ==
  \/ AssembleCode
  \/ LoadAssembled
  \/ Reset

SpecAssembler == InitAssembler /\ [][NextAssembler]_vars

\* a session: a source text and every operation of the CPU
SessionSources == {SrcLabel(0, FALSE), SrcCommented}

InitSession ==
  /\ Is(constructed)
  /\ Unstepped("constructor")
  /\ assemblyCode \in SessionSources
  /\ machineCode = <<>>

NextSession ==
  \/ AssembleCode
  \/ LoadAssembled
  \/ Reset
  \/ Step
  \/ Run
  \/ Stop
  \/ SetClockSpeed
  \/ UpdateFlags
  \/ GetState
  \/ Tick

SpecSession == InitSession /\ [][NextSession]_vars

\* loads of recorded programs among every other operation
InitLoad ==
  /\ Is(constructed)
  /\ Unstepped("constructor")
  /\ assemblyCode = <<>>
  /\ machineCode = <<>>

\* loadProgram(program) for one of the given programs, the caller keeping
\* the array
LoadFrom(programs) ==
  \E program \in programs :
    /\ Becomes(loadProgram(This, program))
    /\ machineCode' = program
    /\ lastOp' = "loadProgram"
    /\ wasRunning' = running
    /\ stepRomIndex' = {}
    /\ stepRamIndex' = {}
    /\ halted' = "no"
    /\ cycles' = 0
    /\ UNCHANGED <<lastResult, assemblyCode, snapshot>>

LoadRecorded == LoadFrom(LoadPrograms)

NextLoad ==
  \/ LoadRecorded
  \/ Reset
  \/ Step
  \/ Run
  \/ Stop
  \/ SetClockSpeed
  \/ UpdateFlags
  \/ Tick

SpecLoad == InitLoad /\ [][NextLoad]_vars

\* getState() results the caller keeps and writes to, among loads, steps
\* and resets
MaxSnapshotCycles == 4

InitSnapshot ==
  /\ Is(loadProgram(constructed, ProgSmall))
  /\ Unstepped("loadProgram")
  /\ assemblyCode = <<>>
  /\ machineCode = ProgSmall

\* snapshot = cpu.getState()
TakeSnapshot ==
  /\ Becomes(This)
  /\ snapshot' = [taken |-> TRUE, state |-> getState(This)]
  /\ lastOp' = "getState"
  /\ wasRunning' = running
  /\ stepRomIndex' = {}
  /\ stepRamIndex' = {}
  /\ UNCHANGED <<lastResult, halted, assemblyCode, machineCode, cycles>>

\* the stores the caller makes into the snapshot it holds:
\* snapshot.ram[20] = 9, snapshot.flags.carry = true
SnapshotWrites(state) ==
  {[container |-> "ram", content |-> [state.ram EXCEPT ![20] = 9]],
   [container |-> "flags", content |-> [state.flags EXCEPT !.carry = TRUE]]}

WriteSnapshot ==
  /\ snapshot.taken
  /\ \E write \in SnapshotWrites(Observed(snapshot.state, This)) :
       LET written == WriteContainer(snapshot.state, This,
                                     write.container, write.content)
       IN /\ Becomes(written.cpu)
          /\ snapshot' = [snapshot EXCEPT !.state = written.state]
  /\ lastOp' = "writeSnapshot"
  /\ wasRunning' = running
  /\ stepRomIndex' = {}
  /\ stepRamIndex' = {}
  /\ UNCHANGED <<lastResult, halted, assemblyCode, machineCode, cycles>>

SnapshotStep == StepWithin(MaxSnapshotCycles)

NextSnapshot ==
  \/ TakeSnapshot
  \/ WriteSnapshot
  \/ SnapshotStep
  \/ LoadAssembled
  \/ Reset

SpecSnapshot == InitSnapshot /\ [][NextSnapshot]_vars

\* every byte as an opcode, under every combination of the flags: a new CPU
\* with the text of all mnemonics in the editor, or one of the programs
\* loaded into a new CPU with an empty editor
InitOpcode ==
  \/ /\ Is(constructed)
     /\ Unstepped("constructor")
     /\ assemblyCode = SrcAllMnemonics
     /\ machineCode = <<>>
  \/ \E program \in OpcodePrograms :
       /\ Is(loadProgram(constructed, program))
       /\ Unstepped("loadProgram")
       /\ assemblyCode = <<>>
       /\ machineCode = program

OpcodeStep == StepWithin(MaxAluCycles)

NextOpcode ==
  \/ AssembleCode
  \/ LoadAssembled
  \/ OpcodeStep

SpecOpcode == InitOpcode /\ [][NextOpcode]_vars

\* texts assembled one after another: the caller assembles any of the
\* texts, in whatever state the CPU is, among loads, steps, runs, stops,
\* speed changes and resets
TextSources == {SrcLabel(1, FALSE), SrcCommented, SrcLdiOut(7)}

InitTexts ==
  /\ Is(constructed)
  /\ Unstepped("constructor")
  /\ assemblyCode = <<>>
  /\ machineCode = <<>>

\* program = cpu.assembleCode(code) for one of the texts
AssembleText ==
  \E code \in TextSources :
    /\ LET assembled == assemble(This, code)
       IN /\ Becomes(assembled.cpu)
          /\ machineCode' = assembled.result
    /\ assemblyCode' = code
    /\ lastOp' = "assembleCode"
    /\ wasRunning' = running
    /\ stepRomIndex' = {}
    /\ stepRamIndex' = {}
    /\ UNCHANGED <<lastResult, halted, snapshot, cycles>>

TextStep == StepWithin(MaxSnapshotCycles)

TextTick == TickWithin(MaxSnapshotCycles)

NextTexts ==
  \/ AssembleText
  \/ LoadAssembled
  \/ TextStep
  \/ Run
  \/ Stop
  \/ SetClockSpeed
  \/ Reset
  \/ TextTick

SpecTexts == InitTexts /\ [][NextTexts]_vars

\* texts about as long as instruction memory: assembled, loaded, stepped
InitFill ==
  /\ Is(constructed)
  /\ Unstepped("constructor")
  /\ assemblyCode \in FillSources
  /\ machineCode = <<>>

FillStep == StepWithin(MaxSnapshotCycles)

NextFill ==
  \/ AssembleCode
  \/ LoadAssembled
  \/ FillStep
  \/ Reset

SpecFill == InitFill /\ [][NextFill]_vars

\* programs stepped by the caller and by the interval at every clock speed:
\* each opcode, and a byte that is none, under the four flag combinations
PacePrograms ==
  {ProgSmall, ProgLoop}
    \cup {OpcodeProgram(setup[1], setup[2], op) :
             setup \in FlagSetups,
             op \in {instructionSet[n].opcode : n \in Mnemonics} \cup {31}}

InitPace ==
  \E program \in PacePrograms :
    /\ Is(loadProgram(constructed, program))
    /\ Unstepped("loadProgram")
    /\ assemblyCode = <<>>
    /\ machineCode = program

PaceStep == StepWithin(MaxAluCycles)

PaceTick == TickWithin(MaxAluCycles)

NextPace ==
  \/ SetClockSpeed
  \/ Run
  \/ PaceStep
  \/ PaceTick

SpecPace == InitPace /\ [][NextPace]_vars

\* a loaded program, run() and nothing but the ticks of its interval
MaxRunCycles == 260

InitRun ==
  \E program \in RunPrograms :
    /\ Is(loadProgram(constructed, program))
    /\ Unstepped("loadProgram")
    /\ assemblyCode = <<>>
    /\ machineCode = program

\* run() called once, on the loaded program
RunLoaded ==
  /\ ~running
  /\ cycles = 0
  /\ Run

RunTick == TickWithin(MaxRunCycles)

NextRun ==
  \/ RunLoaded
  \/ RunTick

SpecRun == InitRun /\ [][NextRun]_vars

\* the browser keeps firing an active interval
SpecRunFair == SpecRun /\ WF_vars(RunTick)

(***************************************************************************)
(* Properties.                                                             *)
(***************************************************************************)
\* C1: setClockSpeed(hz) called while running with an active interval leaves
\* the machine running with an active interval whose period is 1000/hz.
C1_SetClockSpeedRestartsInterval ==
  [][(lastOp' = "setClockSpeed" /\ running /\ timer \in DOMAIN intervals)
       => /\ running'
          /\ timer' \in DOMAIN intervals'
          /\ intervals'[timer'] = Period(clockSpeed')]_vars

\* C2: a tick ends with running = false and no interval exactly when its
\* step returned HALT or left programCounter >= 256; otherwise running and
\* the interval are as before.  After a tick that executed HLT the next
\* transition is not a tick.
C2_TickStopsIffHaltOrEnd ==
  [][/\ lastOp' = "tick" =>
          IF lastResult' = "HALT" \/ programCounter' >= MemSize
            THEN ~running' /\ timer' = null /\ DOMAIN intervals' = {}
            ELSE /\ running'
                 /\ timer' = timer
                 /\ intervals' = intervals
                 /\ timer' \in DOMAIN intervals'
     /\ (lastOp = "tick" /\ lastResult = "HALT") => lastOp' # "tick"]_vars

C2_Witness == lastOp = "tick" /\ lastResult = "HALT" /\ ~running

\* C3: a step() the caller makes after a tick that executed HLT stopped the
\* run fetches the byte at the program counter the machine halted with, is
\* one cycle, and leaves running = false.
C3_StepAfterHalt ==
  [][(halted = "halted" /\ lastOp' = "step")
       => /\ instructionRegister' = RomRead(rom, programCounter)
          /\ programCounter \in stepRomIndex'
          /\ cycles' = cycles + 1
          /\ lastResult' \in {"HALT", "null", "undefined"}
          /\ ~running'
          /\ DOMAIN intervals' = {}]_vars

C3_Witness ==
  /\ halted = "stepped"
  /\ lastOp = "step"
  /\ ~running
  /\ instructionRegister # instructionSet["HLT"].opcode

\* C4: stop() leaves no interval, and while no interval is active nothing
\* but run(), step(), load() and reset() changes the architectural state or
\* creates an interval, and no tick happens.
C4_NoTransitionAfterStop ==
  [][/\ lastOp' = "stop" => DOMAIN intervals' = {}
     /\ (DOMAIN intervals = {}
           /\ lastOp' \notin {"run", "step", "loadProgram", "reset"})
          => /\ UNCHANGED archvars
             /\ DOMAIN intervals' = {}
             /\ lastOp' # "tick"]_vars

C4_Witness ==
  /\ lastOp = "stop"
  /\ wasRunning
  /\ cycles > 0
  /\ clockSpeed # 1

\* C5: at most one interval is ever active, a tick executes one step, and
\* setClockSpeed changes no register, flag, memory cell or program counter.
C5_SingleInterval ==
  /\ Cardinality(DOMAIN intervals) <= 1
  /\ [][/\ Cardinality(DOMAIN intervals') <= 1
        /\ lastOp' = "tick" => cycles' = cycles + 1
        /\ lastOp' = "setClockSpeed" =>
             UNCHANGED archvars /\ cycles' = cycles]_vars

C5_Witness ==
  /\ lastOp = "setClockSpeed"
  /\ wasRunning
  /\ cycles > 0
  /\ clockSpeed = 5

\* C6: run() called while running = true changes no field of the CPU and
\* creates no interval.
C6_RunWhileRunningNoOp ==
  [][(lastOp' = "run" /\ running) => UNCHANGED progvars]_vars

C6_Witness ==
  /\ lastOp = "run"
  /\ wasRunning
  /\ running
  /\ Cardinality(DOMAIN intervals) = 1

\* C7: stop() sets running = false and cancels the interval, and changes
\* nothing else; stop() when not running, and a second stop(), change nothing.
C7_StopIdempotent ==
  [][lastOp' = "stop" =>
       /\ ~running'
       /\ timer' = null
       /\ DOMAIN intervals' = {}
       /\ UNCHANGED <<archvars, alu, pcToLineMap, currentSourceLine,
                      currentRamAddress, activeComponents, clockSpeed>>
       /\ ~running => UNCHANGED progvars
       /\ lastOp = "stop" => UNCHANGED progvars]_vars

C7_Witness ==
  /\ lastOp = "stop"
  /\ ~wasRunning
  /\ programCounter > 0
  /\ outputRegister > 0

\* C8: programCounter is a byte in every reachable state.
C8_ProgramCounterIsByte == programCounter \in 0 .. 255

\* C9: every index step() uses on instruction memory or data memory is in
\* 0..255.
C9_StepIndicesInBounds ==
  /\ stepRomIndex \subseteq 0 .. 255
  /\ stepRamIndex \subseteq 0 .. 255

\* C10: registerA, outputRegister and instructionRegister hold a byte in
\* every reachable state.
C10_RegistersAreBytes ==
  /\ registerA \in 0 .. 255
  /\ outputRegister \in 0 .. 255
  /\ instructionRegister \in 0 .. 255

\* C11: for all bytes a and b, a step executing ADD addr with registerA = a
\* and ram[addr] = b leaves registerA = (a + b) mod 256, carry = (a + b > 255)
\* and zero = (registerA = 0).
C11_AddResult ==
  [][(lastOp' = "step"
        /\ programCounter \in 0 .. 254
        /\ rom[programCounter] = instructionSet["ADD"].opcode
        /\ registerA \in Bytes)
       => LET a == registerA
              b == ram[rom[programCounter + 1]]
          IN /\ registerA' = (a + b) % 256
             /\ flags'.carry = (a + b > 255)
             /\ flags'.zero = (registerA' = 0)]_vars

C11_Witness ==
  /\ lastOp = "step"
  /\ instructionRegister = instructionSet["ADD"].opcode
  /\ alu.inputA = 200
  /\ alu.inputB = 56
  /\ registerA = 0
  /\ flags.carry
  /\ flags.zero

\* C12: for all bytes a and b, a step executing SUB addr with registerA = a
\* and ram[addr] = b leaves registerA = (a - b) mod 256, carry = (a - b < 0)
\* and zero = (registerA = 0).
C12_SubResult ==
  [][(lastOp' = "step"
        /\ programCounter \in 0 .. 254
        /\ rom[programCounter] = instructionSet["SUB"].opcode
        /\ registerA \in Bytes)
       => LET a == registerA
              b == ram[rom[programCounter + 1]]
          IN /\ registerA' = (a - b) % 256
             /\ flags'.carry = (a - b < 0)
             /\ flags'.zero = (registerA' = 0)]_vars

C12_Witness ==
  /\ lastOp = "step"
  /\ instructionRegister = instructionSet["SUB"].opcode
  /\ alu.inputA = 1
  /\ alu.inputB = 2
  /\ registerA = 255
  /\ flags.carry
  /\ ~flags.zero

\* C13: a step executing JMP, JC or JZ at address p leaves both flags as
\* they were; JMP leaves programCounter = addr, JC (JZ) leaves it addr when
\* carry (zero) is set and p + 2 otherwise.
C13_JumpsKeepFlags ==
  [][(lastOp' = "step"
        /\ programCounter \in Addresses
        /\ rom[programCounter] \in {instructionSet["JMP"].opcode,
                                    instructionSet["JC"].opcode,
                                    instructionSet["JZ"].opcode})
       => LET opcode == rom[programCounter]
              addr == RomRead(rom, programCounter + 1)
              taken == \/ opcode = instructionSet["JMP"].opcode
                       \/ opcode = instructionSet["JC"].opcode /\ flags.carry
                       \/ opcode = instructionSet["JZ"].opcode /\ flags.zero
          IN /\ flags' = flags
             /\ programCounter' = IF taken THEN addr ELSE programCounter + 2]_vars

C13_Witness ==
  /\ lastOp = "step"
  /\ instructionRegister = instructionSet["JC"].opcode
  /\ ~flags.carry
  /\ flags.zero
  /\ programCounter = 10

\* the bytes of machineCode are what instruction memory holds
LoadedAssembled ==
  /\ machineCode # <<>>
  /\ rom = [a \in Addresses |->
              IF a < Len(machineCode) THEN machineCode[a + 1] ELSE 0]

\* C14: for every byte v, two steps of the assembled and loaded program
\* LDI v / OUT leave outputRegister = v and zero = (v = 0).
C14_LdiOut ==
  (cycles = 2 /\ LoadedAssembled)
    => \E v \in Bytes :
         /\ assemblyCode = SrcLdiOut(v)
         /\ outputRegister = v
         /\ flags.zero = (v = 0)

C14_Witness ==
  /\ cycles = 2
  /\ LoadedAssembled
  /\ assemblyCode = SrcLdiOut(0)
  /\ outputRegister = 0
  /\ flags.zero

\* C15: the nine-line program, assembled, loaded and run until a tick
\* executes HLT, ends with running = false, ram[22] = 13 and
\* outputRegister = 13.
C15_NineLine ==
  (assemblyCode = SrcNineLine /\ halted = "halted")
    => /\ ~running
       /\ ram[22] = 13
       /\ outputRegister = 13

C15_Witness ==
  /\ assemblyCode = SrcNineLine
  /\ halted = "halted"
  /\ lastOp = "tick"
  /\ wasRunning
  /\ cycles = 9

\* the 0-based index of the first OUT opcode in a byte sequence
AddressOfOut(bytes) ==
  (CHOOSE i \in 1 .. Len(bytes) :
     /\ bytes[i] = instructionSet["OUT"].opcode
     /\ \A j \in 1 .. (i - 1) : bytes[j] # instructionSet["OUT"].opcode) - 1

\* C16: in JMP L / ... / L: OUT / JMP L / HLT the operand of the JMP before
\* the label and of the JMP after it are both the address at which OUT, the
\* instruction following the label, is emitted.
C16_LabelResolvesToNextInstruction ==
  (lastOp = "assembleCode" /\ assemblyCode \in LabelSources)
    => /\ machineCode[2] = AddressOfOut(machineCode)
       /\ machineCode[AddressOfOut(machineCode) + 3] = AddressOfOut(machineCode)

\* C17: an operand that is neither an integer nor a defined label is not
\* assembled to an operand byte: LDI 9 / JMP NOWHERE / HLT does not come out
\* as LDI 9 / JMP x / HLT for any byte x.
C17_UnresolvedOperandFails ==
  (lastOp = "assembleCode" /\ assemblyCode = SrcUnresolved)
    => ~(\E x \in Bytes : machineCode = <<5, 9, 6, x, 15>>)

\* lines joined by newlines
RECURSIVE Join(_)
Join(lines) ==
  IF Len(lines) = 0 THEN <<>>
  ELSE IF Len(lines) = 1 THEN lines[1]
  ELSE lines[1] \o <<"\n">> \o Join(Tail(lines))

\* a line with an instruction text whose mnemonic is not in the instruction set
HasUnknownMnemonic(line) ==
  /\ IsCodeLine(line)
  /\ InstructionLine(trim(line)) # <<>>
  /\ Lookup(toUpperCase(splitWhitespace(InstructionLine(trim(line)))[1])) = "none"

\* the source without its unknown-mnemonic lines
WithoutUnknownLines(code) ==
  Join(SelectSeq(split(code, "\n"), LAMBDA line : ~HasUnknownMnemonic(line)))

\* the source with every unknown-mnemonic instruction removed: a line with a
\* label keeps the label and its colon, a line without one goes
LabelOnly(line) ==
  IF HasUnknownMnemonic(line) /\ includes(line, ":")
    THEN split(line, ":")[1] \o <<":">>
    ELSE line

WithoutUnknownInstructions(code) ==
  LET lines == split(code, "\n")
      kept == SelectSeq(lines,
                LAMBDA line : ~(HasUnknownMnemonic(line) /\ ~includes(line, ":")))
  IN Join([i \in 1 .. Len(kept) |-> LabelOnly(kept[i])])

\* C18 as stated: the bytes of a source are the bytes of the source with
\* every unknown-mnemonic line deleted.
C18_UnknownLinesDeletable ==
  lastOp = "assembleCode"
    => machineCode = assembleCode(WithoutUnknownLines(assemblyCode)).machineCode

\* C18 as amended: the bytes of a source are the bytes of the source with
\* every unknown-mnemonic instruction deleted, a label in front of such an
\* instruction staying as a label-only line.
C18_UnknownInstructionsDeletable ==
  lastOp = "assembleCode"
    => machineCode
         = assembleCode(WithoutUnknownInstructions(assemblyCode)).machineCode

C18_Witness ==
  /\ lastOp = "assembleCode"
  /\ assemblyCode = SrcUnknownAfterLabel
  /\ WithoutUnknownInstructions(assemblyCode) # assemblyCode
  /\ machineCode = <<6, 2, 9, 15>>

\* the opcode of the instruction on a line of source text, none = -1
OpcodeOfLine(line) ==
  LET name == Lookup(toUpperCase(
                splitWhitespace(InstructionLine(trim(line)))[1]))
  IN IF ~IsCodeLine(line) \/ name = "none" THEN 0 - 1
     ELSE instructionSet[name].opcode

\* C19: every address of an assembled instruction is mapped to the index,
\* in the text as submitted, of the line that instruction is on.
C19_MapUsesOriginalLineIndex ==
  lastOp = "assembleCode"
    => \A a \in DOMAIN pcToLineMap :
         a < Len(machineCode)
           => LET lines == split(assemblyCode, "\n")
              IN /\ pcToLineMap[a] + 1 \in 1 .. Len(lines)
                 /\ OpcodeOfLine(lines[pcToLineMap[a] + 1]) = machineCode[a + 1]

\* C20: no operation but assembleCode changes the address-to-line map.
C20_MapSurvives ==
  [][lastOp' # "assembleCode" => pcToLineMap' = pcToLineMap]_vars

C20_Witness ==
  /\ lastOp = "reset"
  /\ wasRunning
  /\ lastResult # "none"
  /\ DOMAIN pcToLineMap # {}

\* C21: right after loadProgram(bytes), whatever came before, data memory
\* holds nothing but zeros (no value stored by an earlier program is left),
\* registerA, outputRegister and programCounter are 0, both flags are false,
\* the machine is stopped with no active interval, and instruction memory
\* holds bytes[i] for i < min(length, 256) and 0 elsewhere.
C21_LoadClears ==
  lastOp = "loadProgram"
    => /\ ram = ZeroMemory
       /\ ramExpando = undefined
       /\ registerA = 0
       /\ outputRegister = 0
       /\ programCounter = 0
       /\ flags = [zero |-> FALSE, carry |-> FALSE]
       /\ ~running
       /\ DOMAIN intervals = {}
       /\ \A a \in Addresses :
            rom[a] = IF a < Len(machineCode) THEN machineCode[a + 1] ELSE 0

\* C22: after reset() every field of getState() is what it is for a newly
\* constructed CPU, and running is false.
C22_ResetRestoresInitial ==
  lastOp = "reset"
    => /\ getState(This) = getState(constructed)
       /\ ~running

\* C23: what the holder of a getState() result reads in it is not changed by
\* any later step, load or reset, and a store the holder makes into one of
\* its containers changes nothing in the CPU.
C23_SnapshotIsCopy ==
  [][/\ (snapshot.taken /\ lastOp' \in {"step", "loadProgram", "reset"})
        => Observed(snapshot'.state, This') = Observed(snapshot.state, This)
     /\ lastOp' = "writeSnapshot" => UNCHANGED progvars]_vars

C23_Witness ==
  /\ snapshot.taken
  /\ lastOp = "step"
  /\ instructionRegister = instructionSet["ADD"].opcode
  /\ snapshot.state.ram[20] = 9
  /\ ram[20] = 7
  /\ snapshot.state.flags.carry
  /\ ~flags.carry
  /\ snapshot.state.registerA = 7
  /\ registerA = 14

\* the opcode bytes of the instruction set
Opcodes == {instructionSet[n].opcode : n \in Mnemonics}

OpcodesOf(names) == {instructionSet[n].opcode : n \in names}

\* the mnemonic written on a line of source text, in upper case
MnemonicOfLine(line) ==
  Lookup(toUpperCase(splitWhitespace(InstructionLine(trim(line)))[1]))

\* C24: the opcode byte assembled for each of the 11 mnemonics is decoded by
\* step's lookup to that mnemonic; a step that fetches a byte that is no
\* opcode adds 1 to programCounter, leaves registerA, registerB, the flags,
\* both memories and outputRegister as they were, and does not return HALT.
C24_OpcodeRoundTripAndTotalStep ==
  /\ [](lastOp = "assembleCode"
          => LET lines == split(assemblyCode, "\n")
             IN /\ \A a \in DOMAIN pcToLineMap :
                     Decode(machineCode[a + 1])
                       = MnemonicOfLine(lines[pcToLineMap[a] + 1])
                /\ assemblyCode = SrcAllMnemonics
                     => {MnemonicOfLine(lines[pcToLineMap[a] + 1]) :
                           a \in DOMAIN pcToLineMap} = Mnemonics)
  /\ [][(lastOp' = "step"
           /\ programCounter \in Addresses
           /\ rom[programCounter] \notin Opcodes)
          => /\ programCounter' = programCounter + 1
             /\ UNCHANGED <<registerA, registerB, flags, outputRegister, rom,
                            ram, ramExpando>>
             /\ lastResult' # "HALT"]_vars

C24_Witness ==
  /\ lastOp = "step"
  /\ instructionRegister = 31
  /\ programCounter = 9
  /\ flags.carry
  /\ flags.zero
  /\ lastResult = "undefined"

\* C29: a step executing LDA, ADD, SUB or STA with operand addr leaves
\* currentRamAddress = addr.
C29_CurrentRamAddressFollowsAccess ==
  [][(lastOp' = "step"
        /\ programCounter \in 0 .. 254
        /\ rom[programCounter] \in OpcodesOf({"LDA", "ADD", "SUB", "STA"}))
       => currentRamAddress' = rom[programCounter + 1]]_vars

\* C30: a step executing NOP, STA, JMP, JC, JZ, OUT, HLT or a byte that is no
\* opcode leaves both flags as they were; a step executing LDA or LDI leaves
\* carry as it was and zero = (registerA = 0).
C30_FlagsOnlyByListed ==
  [][(lastOp' = "step" /\ programCounter \in Addresses)
       => /\ rom[programCounter] \notin OpcodesOf({"LDA", "ADD", "SUB", "LDI"})
               => flags' = flags
          /\ rom[programCounter] \in OpcodesOf({"LDA", "LDI"})
               => /\ flags'.carry = flags.carry
                  /\ flags'.zero = (registerA' = 0)]_vars

C30_Witness ==
  /\ lastOp = "step"
  /\ instructionRegister = instructionSet["LDA"].opcode
  /\ cycles = 5
  /\ registerA = 1
  /\ flags.carry
  /\ ~flags.zero

\* a line that holds an instruction of the instruction set
IsInstructionLine(line) == IsCodeLine(line) /\ MnemonicOfLine(line) # "none"

\* comment texts: plain, with a mnemonic in it, with a colon in it
Comments ==
  {<<";", " ", "n", "o", "t", "e">>,
   <<";", " ", "t", "h", "e", "n", " ", "J", "M", "P">>,
   <<";", " ", "n", "o", "t", "e", ":", " ", "x">>}

\* the source with a blank and the comment appended to every instruction line
WithComment(code, comment) ==
  LET lines == split(code, "\n")
  IN Join([i \in 1 .. Len(lines) |->
             IF IsInstructionLine(lines[i])
               THEN lines[i] \o <<" ">> \o comment
               ELSE lines[i]])

\* C25: appending whitespace, `;` and any comment text to the instruction
\* lines of a source leaves the assembled bytes, the label table and the
\* address-to-line map as they are without the comment.
C25_CommentsIgnored ==
  lastOp = "assembleCode"
    => \A comment \in Comments :
         assembleCode(WithComment(assemblyCode, comment))
           = assembleCode(assemblyCode)

\* the bytes and the address-to-line map of each text of TextSources, read
\* off the text: LDI 7 / OUT; a comment, LDI 1, a blank line, a comment, OUT,
\* HLT; JMP L / NOP / L: / OUT / JMP L / HLT
BytesOfText(code) ==
  CASE code = SrcLdiOut(7) -> <<5, 7, 9>>
    [] code = SrcCommented -> <<5, 1, 9, 15>>
    [] code = SrcLabel(1, FALSE) -> <<6, 3, 0, 9, 6, 3, 15>>

MapOfText(code) ==
  CASE code = SrcLdiOut(7) -> (0 :> 0 @@ 2 :> 1)
    [] code = SrcCommented -> (0 :> 1 @@ 2 :> 4 @@ 3 :> 5)
    [] code = SrcLabel(1, FALSE) ->
         (0 :> 0 @@ 2 :> 1 @@ 3 :> 3 @@ 4 :> 4 @@ 6 :> 5)

\* C26: what assembleCode returns and the map it leaves are determined by
\* the text alone, whatever state the CPU is in, and the call changes no
\* other field of the CPU.
C26_AssembleIsPure ==
  [][lastOp' = "assembleCode"
       => /\ machineCode' = BytesOfText(assemblyCode')
          /\ pcToLineMap' = MapOfText(assemblyCode')
          /\ UNCHANGED <<registerA, registerB, programCounter,
                         instructionRegister, flags, outputRegister, alu,
                         currentSourceLine, rom, ram, ramExpando,
                         currentRamAddress, activeComponents, clockSpeed,
                         running, timer, intervals>>]_vars

C26_Witness ==
  /\ lastOp = "assembleCode"
  /\ assemblyCode = SrcLdiOut(7)
  /\ running
  /\ registerA = 1
  /\ rom[0] = 5
  /\ rom[1] = 1
  /\ DOMAIN pcToLineMap = {0, 2}

\* s.toLowerCase()
toLowerCase(s) ==
  [i \in 1 .. Len(s) |->
     IF \E k \in 1 .. 26 : UpperCase[k] = s[i]
       THEN LowerCase[CHOOSE k \in 1 .. 26 : UpperCase[k] = s[i]]
       ELSE s[i]]

\* a token in another letter case
Recased(token, style) ==
  CASE style = "lower" -> toLowerCase(token)
    [] style = "upper" -> toUpperCase(token)
    [] style = "mixed" ->
         toUpperCase(SubSeq(token, 1, 1))
           \o toLowerCase(SubSeq(token, 2, Len(token)))

\* a line with its mnemonic, the first token after the label if there is
\* one, in another letter case
RecasedLine(line, style) ==
  LET colons == {i \in 1 .. Len(line) : line[i] = ":"}
      from == IF colons = {} THEN 1
              ELSE (CHOOSE i \in colons : \A j \in colons : i <= j) + 1
      inked == {i \in from .. Len(line) : line[i] \notin Whitespace}
      first == CHOOSE i \in inked : \A j \in inked : i <= j
      last == CHOOSE i \in inked :
                /\ i >= first
                /\ \A j \in first .. i : j \in inked
                /\ (i + 1) \notin inked
  IN IF ~IsInstructionLine(line) THEN line
     ELSE SubSeq(line, 1, first - 1)
            \o Recased(SubSeq(line, first, last), style)
            \o SubSeq(line, last + 1, Len(line))

RecasedMnemonics(code, style) ==
  LET lines == split(code, "\n")
  IN Join([i \in 1 .. Len(lines) |-> RecasedLine(lines[i], style)])

\* C27: writing the mnemonics of a source in another letter case leaves the
\* assembled bytes and the address-to-line map unchanged; an operand that
\* differs from a label in letter case only is not that label.
C27_MnemonicCaseIgnored ==
  lastOp = "assembleCode"
    => /\ \A style \in {"lower", "upper", "mixed"} :
            LET recased == assembleCode(RecasedMnemonics(assemblyCode, style))
            IN /\ recased.machineCode = machineCode
               /\ recased.pcToLineMap = pcToLineMap
       /\ assemblyCode = SrcLabelCase => machineCode = <<6, 0, 9, 15>>

C27_Witness ==
  /\ lastOp = "assembleCode"
  /\ assemblyCode = SrcLowerCase
  /\ RecasedMnemonics(assemblyCode, "upper") # assemblyCode
  /\ machineCode = <<5, 3, 9, 15>>

\* the address the first pass has reached before code line k
PassOneAddress(code, k) ==
  LET lines == split(trim(code), "\n")
  IN FirstPass(SubSeq(CodeLines(lines), 1, k - 1), LineIndexMap(lines), 1,
               [labels |-> [l \in {} |-> 0],
                pcToLineMap |-> [a \in {} |-> 0],
                currentAddress |-> 0]).currentAddress

\* the number of bytes the second pass has pushed before code line k
PassTwoIndex(code, k) ==
  LET lines == split(trim(code), "\n")
  IN Len(SecondPass(SubSeq(CodeLines(lines), 1, k - 1),
                    assembleCode(code).labels, 1))

\* C28: each instruction with a known mnemonic emits 1 + operandCount bytes,
\* the address the first pass gives an instruction is the index at which the
\* second pass emits its opcode, and the output is as long as the final
\* address of the first pass.
C28_PassesAgree ==
  lastOp = "assembleCode"
    => LET codeLines == CodeLines(split(trim(assemblyCode), "\n"))
       IN /\ \A k \in 1 .. Len(codeLines) :
               MnemonicOfLine(codeLines[k]) # "none"
                 => /\ Len(EmitLine(codeLines[k], assembleCode(assemblyCode).labels))
                         = 1 + instructionSet[MnemonicOfLine(codeLines[k])].operands
                    /\ PassOneAddress(assemblyCode, k)
                         = PassTwoIndex(assemblyCode, k)
                    /\ machineCode[PassOneAddress(assemblyCode, k) + 1]
                         = instructionSet[MnemonicOfLine(codeLines[k])].opcode
          /\ Len(machineCode)
               = PassOneAddress(assemblyCode, Len(codeLines) + 1)

\* the step or interval callback about to run decodes one of the mnemonics
Executes(names) ==
  /\ lastOp' \in {"step", "tick"}
  /\ programCounter \in Addresses
  /\ rom[programCounter] \in OpcodesOf(names)

\* C31: a step leaves instruction memory as it was, and data memory too
\* unless it executes STA addr, which makes the cell addr hold registerA and
\* leaves every other cell; instruction memory changes only in a load or a
\* reset, and a reset zeroes it.
C31_MemoryFrame ==
  [][/\ lastOp' \in {"step", "tick"}
          => /\ rom' = rom
             /\ IF Executes({"STA"})
                  THEN LET addr == RomRead(rom, programCounter + 1)
                       IN /\ addr \in Addresses
                          /\ ram' = [ram EXCEPT ![addr] = registerA]
                          /\ ramExpando' = ramExpando
                  ELSE /\ ram' = ram
                       /\ ramExpando' = ramExpando
     /\ rom' # rom => lastOp' \in {"loadProgram", "reset"}
     /\ lastOp' = "reset" => rom' = ZeroMemory]_vars

\* C32: after every step that executes one of the 11 instructions the alu
\* is marked in activeComponents.
C32_AluAlwaysActive ==
  [][Executes(Mnemonics) => activeComponents'.alu]_vars

\* C33: a step started with programCounter = p leaves currentSourceLine at
\* the map's entry for p, 0 when p is not mapped; when the assembled program
\* is loaded and p is mapped, that is the line of the text whose instruction
\* the step executed.
C33_SourceLineOfExecuted ==
  [][lastOp' \in {"step", "tick"}
       => /\ currentSourceLine' = LineOf(pcToLineMap, programCounter)
          /\ (LoadedAssembled /\ programCounter \in DOMAIN pcToLineMap)
               => OpcodeOfLine(split(assemblyCode, "\n")[currentSourceLine' + 1])
                    = instructionRegister']_vars

\* C34: the byte sequence assembleCode returns is never longer than
\* instruction memory.
C34_ProgramFitsMemory == Len(machineCode) <= MemSize

\* C35: in every reachable state, running = true implies that the interval
\* of the timer handle is active, and running = false implies that no
\* interval is active.
C35_RunningIffInterval ==
  /\ running => timer \in DOMAIN intervals
  /\ ~running => DOMAIN intervals = {}

JumpOpcodes == OpcodesOf({"JMP", "JC", "JZ"})

\* no byte of instruction memory is a jump opcode
JumpFree == \A a \in Addresses : rom[a] \notin JumpOpcodes

\* C36: once run() is called on a loaded program and only ticks follow, the
\* machine eventually has running = false unless a step decodes a jump; with
\* no jump opcode in instruction memory it is stopped by the 256th tick.
C36_RunTerminates ==
  /\ (lastOp = "run") ~> (~running \/ instructionRegister \in JumpOpcodes)
  /\ [](JumpFree => /\ cycles <= MemSize
                    /\ running => cycles < MemSize)

C36_Witness ==
  /\ lastOp = "tick"
  /\ ~running
  /\ JumpFree
  /\ cycles = MemSize
  /\ programCounter = MemSize
  /\ lastResult # "HALT"

\* the CPU after k calls of step()
RECURSIVE StepsFrom(_, _)
StepsFrom(w, k) == IF k = 0 THEN w ELSE step(StepsFrom(w, k - 1)).cpu

\* the architectural state of a CPU
Architectural(w) ==
  <<w.registerA, w.registerB, w.programCounter, w.instructionRegister, w.flags,
    w.outputRegister, w.rom, w.ram, w.ramExpando>>

\* C37: after a program is loaded, the architectural state reached by k
\* executions, whether ticks of run() at any clock speed or calls of step(),
\* is the one k calls of step() produce.
C37_TicksEqualSteps ==
  Architectural(This)
    = Architectural(StepsFrom(loadProgram(constructed, machineCode), cycles))

C37_Witness ==
  /\ lastOp = "tick"
  /\ clockSpeed = 5
  /\ cycles = 5
  /\ instructionRegister = instructionSet["JC"].opcode
  /\ programCounter = 20
  /\ registerA = 0
  /\ flags.carry

\* C38: in every reachable state, if the zero flag is set then registerA
\* is 0.
C38_ZeroFlagMeansZero == flags.zero => registerA = 0

C38_Witness ==
  /\ lastOp = "step"
  /\ instructionRegister = instructionSet["OUT"].opcode
  /\ flags.zero
  /\ flags.carry
  /\ registerA = 0
  /\ cycles = 5

\* C39: a step that executes HLT at address p returns HALT, leaves
\* programCounter = p + 1 and leaves registerA, registerB, the flags, data
\* memory and outputRegister as they were; the next step, by the caller or
\* by a tick of a new run, fetches the byte at that programCounter.
C39_HaltAdvances ==
  [][/\ Executes({"HLT"})
          => /\ lastResult' = "HALT"
             /\ programCounter' = programCounter + 1
             /\ UNCHANGED <<registerA, registerB, flags, ram, ramExpando,
                            outputRegister>>
     /\ (/\ lastResult = "HALT"
         /\ instructionRegister = instructionSet["HLT"].opcode
         /\ lastOp' \in {"step", "tick"})
          => /\ instructionRegister' = RomRead(rom, programCounter)
             /\ programCounter \in stepRomIndex'
             /\ cycles' = cycles + 1]_vars

C39_Witness ==
  /\ lastOp = "tick"
  /\ halted = "no"
  /\ running
  /\ rom[7] = instructionSet["HLT"].opcode
  /\ programCounter = 9
  /\ instructionRegister = 0
  /\ outputRegister = 14

\* instruction memory after loadProgram(bytes)
Image(bytes) == loadProgram(constructed, bytes).rom

\* C40: whenever instruction memory holds the program assembled from a
\* source text, the address-to-line map is the one the assembly of that
\* text produces.
C40_MapMatchesProgram ==
  \A code \in TextSources :
    rom = Image(assembleCode(code).machineCode)
      => pcToLineMap = assembleCode(code).pcToLineMap

====
